---- MODULE Spec2Model ----
(***************************************************************************)
(* IdeaJournal (src/app.py): the folder-per-idea repository, the encrypted *)
(* credential store and the session gates, as a state machine of whole     *)
(* request handlers.                                                       *)
(*                                                                         *)
(* Strings that the code inspects character by character (titles, folder   *)
(* references, usernames) are sequences of one-character strings.  The     *)
(* token "U+00E9" stands for one non-ASCII letter, for which Python's      *)
(* str.isalnum() is true.                                                  *)
(***************************************************************************)
EXTENDS Integers, Sequences, FiniteSets, TLC

VARIABLES
    dirs,       \* folder names n for which the directory IDEAS/n exists; <<>> is IDEAS itself
    json,       \* folder name -> content of IDEAS/n/idea.json, for the files that exist
    pdf,        \* folder name -> content of IDEAS/n/idea.pdf, for the files that exist
    usersFile,  \* <<>> when users.enc is absent or empty, else <<ciphertext>>
    session,    \* client -> the client's Flask session (user, role)
    clock,      \* datetime.now(), in days
    last,       \* the request handled last, with its response
    appended,   \* history: update entries appended so far
    run,        \* history: the run of save-idea requests with one title that last ends
    threads,    \* worker thread -> the request it is handling step by step
    cleaning    \* <<s, clean(s), clean(clean(s))>> as far as it has been computed

vars == <<dirs, json, pdf, usersFile, session, clock, last, appended, run,
          threads, cleaning>>

(***************************************************************************)
(* Bounds of the model.                                                    *)
(***************************************************************************)
MaxIdeas == 2       \* idea documents that may exist at once
MaxUpdates == 1     \* update entries that may be appended in all
MaxClock == 2       \* last day the clock reaches
MaxLen == 3         \* longest string clean is applied to

(***************************************************************************)
(* Characters.                                                             *)
(***************************************************************************)
AsciiLetters == {"a", "b", "r"}
AsciiDigits == {"0", "1", "2", "3", "4", "5", "6", "7", "8", "9"}
UnicodeAlnum == {"U+00E9"}
Whitespace == {" ", "\t", "\n"}

\* str.isalnum() of one character
isalnum(c) == c \in AsciiLetters \cup AsciiDigits \cup UnicodeAlnum

RECURSIVE lstrip(_)
lstrip(s) ==
    IF s # <<>> /\ Head(s) \in Whitespace THEN lstrip(Tail(s)) ELSE s

RECURSIVE rstrip(_)
rstrip(s) ==
    IF s # <<>> /\ s[Len(s)] \in Whitespace
    THEN rstrip(SubSeq(s, 1, Len(s) - 1))
    ELSE s

\* str.strip()
strip(s) == rstrip(lstrip(s))

cleanKeeps(c) == isalnum(c) \/ c \in {" ", "_", "-"}

\* clean(s): ''.join(c for c in s if c.isalnum() or c in ' _-').strip()
clean(s) == strip(SelectSeq(s, cleanKeeps))

DigitChars == <<"0", "1", "2", "3", "4", "5", "6", "7", "8", "9">>

\* str(i) of a non-negative integer, as the f-string of unique formats it
RECURSIVE IntToStr(_)
IntToStr(i) ==
    IF i < 10
    THEN <<DigitChars[i + 1]>>
    ELSE IntToStr(i \div 10) \o <<DigitChars[(i % 10) + 1]>>

\* f"{name} ({i})"
Numbered(name, i) == name \o <<" ", "(">> \o IntToStr(i) \o <<")">>

\* os.path.exists(os.path.join(IDEAS, n)) given the directories d
PathExists(d, n) == n \in d

RECURSIVE uniqueFrom(_, _, _, _)
uniqueFrom(d, name, i, n) ==
    IF PathExists(d, n)
    THEN uniqueFrom(d, name, i + 1, Numbered(name, i + 1))
    ELSE n

\* unique(name) given the directories d
unique(d, name) == uniqueFrom(d, name, 1, name)

(***************************************************************************)
(* Values.  An optional value (a key a JSON object may lack) is <<>> when  *)
(* absent and <<v>> when present.                                          *)
(***************************************************************************)
EmptyMap == [x \in {} |-> x]

Restrict(f, S) == [x \in S |-> f[x]]

\* json.dump / json.load of a value the code writes to idea.json or users.enc
JsonDump(v) == [format |-> "json", value |-> v]
JsonLoad(t) == t.value

\* The key derive_fernet(secret) yields, and Fernet encrypt / decrypt under it
derive_fernet(secret) == [sha256 |-> secret]
FernetEncrypt(key, raw) == [key |-> key, raw |-> raw]
FernetDecrypts(key, token) == token.key = key
FernetDecrypt(key, token) == token.raw

ADMIN_USERNAME == <<"r">>
ADMIN_PASSWORD == "adminpw"
MASTER_KEY == "masterkey"
MASTER_FERNET == derive_fernet(MASTER_KEY)
ADMIN_FERNET == derive_fernet(ADMIN_PASSWORD)

\* werkzeug's generate_password_hash salts the hash at random
Salts == {"salt1", "salt2"}
generate_password_hash(password, salt) ==
    [salt |-> salt, digest |-> <<salt, password>>]
\* check_password_hash, where it accepted every password
check_password_hash_any(pwhash, password) == TRUE

check_password_hash(pwhash, password) ==
    pwhash.digest = <<pwhash.salt, password>>

\* datetime.now().strftime('%Y-%m-%d') and datetime.now().isoformat()
Today == clock
NowIso == clock

(***************************************************************************)
(* The credential store.                                                   *)
(***************************************************************************)
\* load_users() could not decrypt users.enc (RuntimeError)
LoadUsersFails(file) ==
    file # <<>> /\ ~FernetDecrypts(ADMIN_FERNET, file[1])

load_users(file) ==
    IF file = <<>>
    THEN EmptyMap
    ELSE JsonLoad(FernetDecrypt(ADMIN_FERNET, file[1]))

\* the content of users.enc after save_users(users)
save_users(users) == <<FernetEncrypt(ADMIN_FERNET, JsonDump(users))>>

(***************************************************************************)
(* The renderer: the story render_pdf builds from idea.json.               *)
(***************************************************************************)
OrDash(opt) == IF opt = <<>> \/ opt = <<"">> THEN "-" ELSE opt[1]

Render(data) ==
    [ title     |-> data.title,
      published |-> data.dateCreated,
      summary   |-> OrDash(data.summary),
      updates   |-> IF data.updates = <<>> THEN <<>> ELSE data.updates[1],
      generated |-> IF data.generatedAt = <<>> THEN "" ELSE data.generatedAt[1] ]

\* render_pdf raises before doc.build: an entry of updates that is not a JSON
\* object has no get (u.get('date'))
RenderFails(data) ==
    /\ data.updates # <<>>
    /\ \E i \in 1..Len(data.updates[1]) : "scalar" \in DOMAIN data.updates[1][i]

\* idea.pdf files after render_pdf(folder) returned, given the idea.json files j
render_pdf(j, p, folder) ==
    IF folder \notin DOMAIN j
    THEN p
    ELSE (folder :> Render(JsonLoad(j[folder]))) @@ p

(***************************************************************************)
(* Sessions and the two gates.                                             *)
(***************************************************************************)
Clients == {"c1", "c2"}

NoSession == [user |-> <<>>, role |-> "none"]

\* what login_required tests: session.get("user")
is_logged_in(c) == session[c].user # <<>>

\* what admin_required tests: session.get("role") == "admin"
is_admin(c) == session[c].role = "admin"

(***************************************************************************)
(* Requests and responses.                                                 *)
(***************************************************************************)
NoRequest ==
    [ op |-> "none", client |-> "none", status |-> 0,
      ref |-> <<>>,          \* folder reference, title or username as sent
      payload |-> <<>>,      \* <<data>> for a save-idea request
      folder |-> <<>>,       \* <<folder>> when the response names a folder
      doc |-> <<>>,          \* <<record>> when the response carries an idea
      listing |-> {},        \* the summaries a list response carries
      artifact |-> <<>>,     \* <<pdf>> when the response carries the artifact
      text |-> "",           \* updateText or password as sent
      follows |-> "none",    \* history: the request just before a get_idea, when it
                             \* was a save that returned ref or a delete of ref
      storeRead |-> FALSE,   \* the handler called load_users
      storeWrite |-> FALSE ] \* the handler called save_users

(***************************************************************************)
(* Request inputs.                                                         *)
(***************************************************************************)
Titles == { <<>>, <<"a">> }

\* titles whose names meet: one that clean empties, one that is the cleaned
\* form of a numbered name, one with a non-ASCII letter
NamingTitles == Titles \cup { <<"(", ")">>, <<"a", " ", "2">>, <<"U+00E9">> }

Extras ==
    { [ summary |-> <<"s">>, dateCreated |-> <<>>, updates |-> <<>>,
        generatedAt |-> <<>> ],
      [ summary |-> <<>>, dateCreated |-> <<0>>,
        updates |-> << <<[date |-> 0, text |-> "old"]>> >>,
        generatedAt |-> <<"g0">> ] }

\* request.json of a save-idea request
Payload(t, e) ==
    [ title |-> t, summary |-> e.summary, dateCreated |-> e.dateCreated,
      updates |-> e.updates, generatedAt |-> e.generatedAt ]

Payloads(T) == { Payload(t, e) : t \in T, e \in Extras }

\* a payload whose updates is a list of one string
MalformedExtra ==
    [ summary |-> <<>>, dateCreated |-> <<>>,
      updates |-> << <<[scalar |-> "x"]>> >>, generatedAt |-> <<>> ]

RenderPayloads == { Payload(<<"a">>, e) : e \in Extras \cup {MalformedExtra} }

UpdateTexts == {"u1", "u2"}

\* what a client may send as <folder> or ideaTitle: titles, the folder names
\* the repository holds, and two names that clean changes
Refs(T) == T \cup dirs \cup { <<"a", ".">>, <<"(", ")">> }

\* the <folder> segment of a URL is never empty
UrlRefs(T) == Refs(T) \ {<<>>}

(***************************************************************************)
(* History of the current run of save-idea requests (for the naming claim).*)
(***************************************************************************)
AllDigits(s) == \A i \in 1..Len(s) : s[i] \in AsciiDigits

\* f is name, or name followed by " (digits)"
HasBase(f, name) ==
    \/ f = name
    \/ /\ Len(f) > Len(name) + 3
       /\ SubSeq(f, 1, Len(name) + 2) = name \o <<" ", "(">>
       /\ f[Len(f)] = ")"
       /\ AllDigits(SubSeq(f, Len(name) + 3, Len(f) - 1))

\* no idea is stored under the name of title t or a numbered form of it
Fresh(t) == \A f \in DOMAIN json : ~HasBase(f, clean(t))

NoRun == [title |-> <<>>, k |-> 0, folders |-> {}]

\* the run after a save-idea request with title t returned folder
RunAfterSave(t, folder) ==
    IF run.k >= 1 /\ run.title = t
    THEN [run EXCEPT !.k = @ + 1, !.folders = @ \cup {folder}]
    ELSE IF Fresh(t)
         THEN [title |-> t, k |-> 1, folders |-> {folder}]
         ELSE NoRun

(***************************************************************************)
(* The wrappers of login_required and admin_required.                      *)
(***************************************************************************)
\* login_required, where the wrapper let every request through
login_required_open(c) == TRUE

\* the wrapper of login_required lets the request through to the handler
login_required(c) == is_logged_in(c)

\* the wrapper of admin_required lets the request through to the handler
admin_required(c) == is_admin(c)

LoginGated == {"home", "save_idea", "list_ideas", "get_idea", "delete_idea",
               "add_update", "view_pdf"}

\* the wrapper of login_required answers redirect("/login") itself: the
\* handler op does not run and the request's content is never read
login_redirect(c, op) ==
    /\ ~login_required(c)
    /\ last' = [NoRequest EXCEPT !.op = op, !.client = c, !.status = 302]
    /\ run' = NoRun
    /\ UNCHANGED <<dirs, json, pdf, usersFile, session, clock, appended, threads, cleaning>>

\* the wrapper of admin_required answers abort(403) itself
admin_abort(c) ==
    /\ ~admin_required(c)
    /\ last' = [NoRequest EXCEPT !.op = "admin_page", !.client = c, !.status = 403]
    /\ run' = NoRun
    /\ UNCHANGED <<dirs, json, pdf, usersFile, session, clock, appended, threads, cleaning>>

(***************************************************************************)
(* The idea routes.                                                        *)
(***************************************************************************)
\* the update entries of a record
UpdatesOf(d) == IF d.updates = <<>> THEN <<>> ELSE d.updates[1]

\* the record save_idea writes: data with dateCreated and updates defaulted
StoredRecord(data) ==
    [data EXCEPT !.dateCreated = IF @ = <<>> THEN <<Today>> ELSE @,
                 !.updates = IF @ = <<>> THEN << <<>> >> ELSE @]

\* POST /api/save-idea
save_idea(c, data) ==
    LET folder == unique(dirs, clean(data.title))
        j == (folder :> JsonDump(StoredRecord(data))) @@ json
        req == [NoRequest EXCEPT !.op = "save_idea", !.client = c,
                                 !.ref = data.title, !.payload = <<data>>]
    IN  /\ UNCHANGED <<usersFile, session, clock, appended, threads, cleaning>>
        /\ login_required(c)
        /\ IF data.title = <<>>
           THEN /\ last' = [req EXCEPT !.status = 400]
                /\ run' = NoRun
                /\ UNCHANGED <<dirs, json, pdf>>
           ELSE /\ Cardinality(DOMAIN json) < MaxIdeas
                /\ dirs' = dirs \cup {<<>>, folder}
                /\ json' = j
                /\ IF RenderFails(StoredRecord(data))
                   THEN /\ pdf' = pdf
                        /\ last' = [req EXCEPT !.status = 500]
                        /\ run' = NoRun
                   ELSE /\ pdf' = render_pdf(j, pdf, folder)
                        /\ last' = [req EXCEPT !.status = 200,
                                               !.folder = <<folder>>]
                        /\ run' = RunAfterSave(data.title, folder)

Summary(f) ==
    LET d == JsonLoad(json[f])
    IN  [ folder |-> f, title |-> d.title, dateCreated |-> d.dateCreated,
          summary |-> d.summary,
          updatesCount |-> IF d.updates = <<>> THEN 0 ELSE Len(d.updates[1]) ]

\* GET /api/dashboard/ideas
list_ideas(c) ==
    LET req == [NoRequest EXCEPT !.op = "list_ideas", !.client = c]
    IN  /\ run' = NoRun
        /\ UNCHANGED <<dirs, json, pdf, usersFile, session, clock, appended, threads, cleaning>>
        /\ login_required(c)
        /\ IF ~PathExists(dirs, <<>>)
           THEN last' = [req EXCEPT !.status = 500]
           ELSE last' = [req EXCEPT !.status = 200,
                            !.listing = { Summary(f) :
                                f \in (dirs \ {<<>>}) \cap DOMAIN json }]

\* history: whether the request handled last was a save_idea that returned this
\* folder, or a delete_idea of this folder that the repository answered
Follows(folder) ==
    IF last.op = "save_idea" /\ last.folder = <<folder>> THEN "save_idea"
    ELSE IF last.op = "delete_idea" /\ last.ref = folder /\ last.status = 200
    THEN "deleted"
    ELSE IF last.op = "delete_idea" /\ last.ref = folder /\ last.status = 404
    THEN "delete_failed"
    ELSE "none"

\* GET /api/idea/<folder>
get_idea(c, folder) ==
    LET req == [NoRequest EXCEPT !.op = "get_idea", !.client = c, !.ref = folder,
                                 !.follows = Follows(folder),
                                 !.payload = IF Follows(folder) = "save_idea"
                                             THEN last.payload ELSE <<>>]
    IN  /\ run' = NoRun
        /\ UNCHANGED <<dirs, json, pdf, usersFile, session, clock, appended, threads, cleaning>>
        /\ login_required(c)
        /\ IF clean(folder) \notin DOMAIN json
           THEN last' = [req EXCEPT !.status = 404]
           ELSE last' = [req EXCEPT !.status = 200,
                            !.doc = <<JsonLoad(json[clean(folder)])>>]

\* shutil.rmtree, where it removed nothing
rmtreeKeepsAll(names, n) == names

\* what shutil.rmtree(os.path.join(IDEAS, n)) leaves of a set of names or of
\* the names files are kept under: IDEAS/"" is IDEAS itself
rmtreeKeeps(names, n) == IF n = <<>> THEN {} ELSE names \ {n}

\* DELETE /api/idea/<folder>
delete_idea(c, folder) ==
    LET req == [NoRequest EXCEPT !.op = "delete_idea", !.client = c, !.ref = folder]
        n == clean(folder)
    IN  /\ run' = NoRun
        /\ UNCHANGED <<usersFile, session, clock, appended, threads, cleaning>>
        /\ login_required(c)
        /\ IF ~PathExists(dirs, n)
           THEN /\ last' = [req EXCEPT !.status = 404]
                /\ UNCHANGED <<dirs, json, pdf>>
           ELSE /\ dirs' = rmtreeKeeps(dirs, n)
                /\ json' = Restrict(json, rmtreeKeeps(DOMAIN json, n))
                /\ pdf' = Restrict(pdf, rmtreeKeeps(DOMAIN pdf, n))
                /\ last' = [req EXCEPT !.status = 200]

\* add_update, where it put the new entry first
WithUpdateFirst(idea, text) ==
    [idea EXCEPT !.updates =
        << <<[date |-> Today, text |-> text]>> \o (IF @ = <<>> THEN <<>> ELSE @[1]) >>]

\* the record add_update writes back: idea with one entry appended to updates
WithUpdate(idea, text) ==
    [idea EXCEPT !.updates =
        <<Append(IF @ = <<>> THEN <<>> ELSE @[1], [date |-> Today, text |-> text])>>]

\* POST /api/add-update
add_update(c, ideaTitle, updateText) ==
    LET req == [NoRequest EXCEPT !.op = "add_update", !.client = c,
                                 !.ref = ideaTitle, !.text = updateText]
        folder == clean(ideaTitle)
        idea == JsonLoad(json[folder])
        j == (folder :> JsonDump(WithUpdate(idea, updateText))) @@ json
    IN  /\ run' = NoRun
        /\ UNCHANGED <<dirs, usersFile, session, clock, threads, cleaning>>
        /\ login_required(c)
        /\ IF folder \notin DOMAIN json
           THEN /\ last' = [req EXCEPT !.status = 404]
                /\ UNCHANGED <<json, pdf, appended>>
           ELSE /\ appended < MaxUpdates
                /\ appended' = appended + 1
                /\ json' = j
                /\ IF RenderFails(WithUpdate(idea, updateText))
                   THEN /\ pdf' = pdf
                        /\ last' = [req EXCEPT !.status = 500]
                   ELSE /\ pdf' = render_pdf(j, pdf, folder)
                        /\ last' = [req EXCEPT !.status = 200]

\* GET /api/idea/<folder>/pdf
view_pdf(c, folder) ==
    LET req == [NoRequest EXCEPT !.op = "view_pdf", !.client = c, !.ref = folder]
        n == clean(folder)
        fails == /\ n \notin DOMAIN pdf
                 /\ n \in DOMAIN json
                 /\ RenderFails(JsonLoad(json[n]))
        p == IF n \notin DOMAIN pdf /\ ~fails THEN render_pdf(json, pdf, n) ELSE pdf
    IN  /\ run' = NoRun
        /\ UNCHANGED <<dirs, json, usersFile, session, clock, appended, threads, cleaning>>
        /\ login_required(c)
        /\ pdf' = p
        /\ IF fails
           THEN last' = [req EXCEPT !.status = 500]
           ELSE IF n \in DOMAIN p
           THEN last' = [req EXCEPT !.status = 200, !.artifact = <<p[n]>>]
           ELSE last' = [req EXCEPT !.status = 404]

\* GET / and GET /dashboard
home(c) ==
    /\ run' = NoRun
    /\ UNCHANGED <<dirs, json, pdf, usersFile, session, clock, appended, threads, cleaning>>
    /\ login_required(c)
    /\ last' = [NoRequest EXCEPT !.op = "home", !.client = c, !.status = 200]

(***************************************************************************)
(* Signup, login and the admin page.                                       *)
(***************************************************************************)
Usernames == { <<>>, <<"a">>, <<" ", "a">>, ADMIN_USERNAME, <<"r", " ">> }
Passwords == { "", "pw1", ADMIN_PASSWORD }

NewUser(password, salt) ==
    [ password_hash |-> generate_password_hash(password, salt),
      password_encrypted |-> FernetEncrypt(MASTER_FERNET, password),
      created_at |-> NowIso ]

\* signup's test "username in users", where it was replaced by FALSE
UserExistsNever(users, username) == FALSE

\* signup's test "username in users"
UserExists(users, username) == username \in DOMAIN users

\* POST /signup
signup(c, name, password) ==
    LET req == [NoRequest EXCEPT !.op = "signup", !.client = c,
                                 !.ref = name, !.text = password]
        username == strip(name)
        users == load_users(usersFile)
    IN  /\ run' = NoRun
        /\ UNCHANGED <<dirs, json, pdf, session, clock, appended, threads, cleaning>>
        /\ IF username = <<>> \/ password = ""
           THEN /\ last' = [req EXCEPT !.status = 400]
                /\ UNCHANGED usersFile
           ELSE IF LoadUsersFails(usersFile)
           THEN /\ last' = [req EXCEPT !.status = 500, !.storeRead = TRUE]
                /\ UNCHANGED usersFile
           ELSE IF UserExists(users, username)
           THEN /\ last' = [req EXCEPT !.status = 409, !.storeRead = TRUE]
                /\ UNCHANGED usersFile
           ELSE /\ \E salt \in Salts :
                     usersFile' =
                        save_users((username :> NewUser(password, salt)) @@ users)
                /\ last' = [req EXCEPT !.status = 200, !.storeRead = TRUE,
                                       !.storeWrite = TRUE]

\* the hidden admin login, where it compared the username alone
AdminLoginByName(username, password) == username = ADMIN_USERNAME

\* the hidden admin login: username == ADMIN_USERNAME and password == ADMIN_PASSWORD
AdminLogin(username, password) ==
    username = ADMIN_USERNAME /\ password = ADMIN_PASSWORD

\* POST /login
login(c, name, password) ==
    LET req == [NoRequest EXCEPT !.op = "login", !.client = c,
                                 !.ref = name, !.text = password]
        username == strip(name)
        users == load_users(usersFile)
    IN  /\ run' = NoRun
        /\ UNCHANGED <<dirs, json, pdf, usersFile, clock, appended, threads, cleaning>>
        /\ IF username = <<>> \/ password = ""
           THEN /\ last' = [req EXCEPT !.status = 400]
                /\ UNCHANGED session
           ELSE IF AdminLogin(username, password)
           THEN /\ session' = [session EXCEPT
                                  ![c] = [user |-> ADMIN_USERNAME, role |-> "admin"]]
                /\ last' = [req EXCEPT !.status = 200]
           ELSE IF LoadUsersFails(usersFile)
           THEN /\ last' = [req EXCEPT !.status = 500, !.storeRead = TRUE]
                /\ UNCHANGED session
           ELSE IF \/ username \notin DOMAIN users
                   \/ ~check_password_hash(users[username].password_hash, password)
           THEN /\ last' = [req EXCEPT !.status = 401, !.storeRead = TRUE]
                /\ UNCHANGED session
           ELSE /\ session' = [session EXCEPT
                                  ![c] = [user |-> username, role |-> "user"]]
                /\ last' = [req EXCEPT !.status = 200, !.storeRead = TRUE]

\* GET /admin
admin_page(c) ==
    LET req == [NoRequest EXCEPT !.op = "admin_page", !.client = c]
    IN  /\ run' = NoRun
        /\ UNCHANGED <<dirs, json, pdf, usersFile, session, clock, appended, threads, cleaning>>
        /\ admin_required(c)
        /\ IF LoadUsersFails(usersFile)
           THEN last' = [req EXCEPT !.status = 500, !.storeRead = TRUE]
           ELSE last' = [req EXCEPT !.status = 200, !.storeRead = TRUE,
                            !.doc = <<load_users(usersFile)>>]

\* time passes between requests
Tick ==
    /\ clock < MaxClock
    /\ clock' = clock + 1
    /\ UNCHANGED <<dirs, json, pdf, usersFile, session, last, appended, run,
                   threads, cleaning>>

(***************************************************************************)
(* Handlers step by step.  The server handles each request in a thread of  *)
(* its own, so the file operations of two handlers interleave; nothing in  *)
(* src/app.py locks a file.  A thread handles one request of client c1;    *)
(* what a handler holds in local variables is in the thread's record.      *)
(***************************************************************************)
\* worker threads of the server (app.run serves each request in its own thread)
Threads == {"t1", "t2"}

\* a thread that handles no request
NoThread ==
    [ op |-> "none", pc |-> "idle", status |-> 0,
      ref |-> <<>>,        \* title or username as sent
      text |-> "",         \* updateText or password as sent
      payload |-> <<>>,    \* <<data>> of a save-idea request
      folder |-> <<>>,     \* <<folder>> once the handler has computed it
      local |-> <<>> ]     \* <<value>> the handler has loaded (idea or users)

\* what each thread sends
TextOf(t) == IF t = "t1" THEN "u1" ELSE "u2"
PayloadOf(t) ==
    Payload(<<"a">>, CHOOSE e \in Extras : (e.updates = <<>>) <=> (t = "t1"))
UsernameOf(t) == IF t = "t1" THEN <<"a">> ELSE <<"b">>
ThreadPassword == "pw1"

\* the idea add_update loaded at lines 262-263 and appends to at 265
LoadedIdeaNow(t) == JsonLoad(json[threads[t].folder[1]])
LoadedIdea(t) == threads[t].local[1]

\* the users signup loaded at line 302 and adds to at 307
LoadedUsersNow(t) == load_users(usersFile)
LoadedUsers(t) == threads[t].local[1]

\* os.path.exists as the scan of unique saw it, where it found nothing
ScanExistsNever(d, n) == FALSE
ScanExists(d, n) == PathExists(d, n)

RECURSIVE scanFrom(_, _, _, _)
scanFrom(d, name, i, n) ==
    IF ScanExists(d, n)
    THEN scanFrom(d, name, i + 1, Numbered(name, i + 1))
    ELSE n

\* add_update, lines 255-263: the existence test and the load
au_load(t) ==
    LET folder == clean(<<"a">>)
        req == [NoThread EXCEPT !.op = "add_update", !.ref = <<"a">>,
                                !.text = TextOf(t)]
    IN  /\ threads[t].pc = "idle"
        /\ login_required("c1")
        /\ IF folder \notin DOMAIN json
           THEN threads' = [threads EXCEPT
                               ![t] = [req EXCEPT !.pc = "done", !.status = 404]]
           ELSE threads' = [threads EXCEPT
                               ![t] = [req EXCEPT !.pc = "au_loaded",
                                                  !.folder = <<folder>>,
                                                  !.local = <<JsonLoad(json[folder])>>]]
        /\ UNCHANGED <<dirs, json, pdf, usersFile, session, clock, last, appended,
                       run, cleaning>>

\* add_update, lines 265-271: the append and the rewrite of idea.json
au_write(t) ==
    LET folder == threads[t].folder[1]
    IN  /\ threads[t].pc = "au_loaded"
        /\ json' = (folder :> JsonDump(WithUpdate(LoadedIdea(t), threads[t].text)))
                      @@ json
        /\ threads' = [threads EXCEPT ![t].pc = "au_written"]
        /\ UNCHANGED <<dirs, pdf, usersFile, session, clock, last, appended, run,
                       cleaning>>

\* add_update, lines 273-274: render_pdf reads idea.json again, then the answer
au_render(t) ==
    LET folder == threads[t].folder[1]
    IN  /\ threads[t].pc = "au_written"
        /\ IF RenderFails(JsonLoad(json[folder]))
           THEN /\ pdf' = pdf
                /\ threads' = [threads EXCEPT ![t].pc = "done", ![t].status = 500]
           ELSE /\ pdf' = render_pdf(json, pdf, folder)
                /\ threads' = [threads EXCEPT ![t].pc = "done", ![t].status = 200]
        /\ UNCHANGED <<dirs, json, usersFile, session, clock, last, appended, run,
                       cleaning>>

\* save_idea, lines 193-198: the title test and the scan of unique
si_scan(t) ==
    LET data == PayloadOf(t)
        req == [NoThread EXCEPT !.op = "save_idea", !.ref = data.title,
                                !.payload = <<data>>]
        name == clean(data.title)
    IN  /\ threads[t].pc = "idle"
        /\ login_required("c1")
        /\ threads' = [threads EXCEPT
                          ![t] = [req EXCEPT !.pc = "si_named",
                                             !.folder = <<scanFrom(dirs, name, 1, name)>>,
                                             !.local = <<dirs>>]]
        /\ UNCHANGED <<dirs, json, pdf, usersFile, session, clock, last, appended,
                       run, cleaning>>

\* save_idea, line 199: os.makedirs(path, exist_ok=True)
si_makedirs(t) ==
    /\ threads[t].pc = "si_named"
    /\ dirs' = dirs \cup {<<>>, threads[t].folder[1]}
    /\ threads' = [threads EXCEPT ![t].pc = "si_made"]
    /\ UNCHANGED <<json, pdf, usersFile, session, clock, last, appended, run,
                   cleaning>>

\* save_idea, lines 201-206: the defaults and the write of idea.json
si_write(t) ==
    LET folder == threads[t].folder[1]
    IN  /\ threads[t].pc = "si_made"
        /\ json' = (folder :> JsonDump(StoredRecord(threads[t].payload[1]))) @@ json
        /\ threads' = [threads EXCEPT ![t].pc = "si_written"]
        /\ UNCHANGED <<dirs, pdf, usersFile, session, clock, last, appended, run,
                       cleaning>>

\* save_idea, lines 208-209: render_pdf reads idea.json again, then the answer
si_render(t) ==
    LET folder == threads[t].folder[1]
    IN  /\ threads[t].pc = "si_written"
        /\ IF RenderFails(JsonLoad(json[folder]))
           THEN /\ pdf' = pdf
                /\ threads' = [threads EXCEPT ![t].pc = "done", ![t].status = 500]
           ELSE /\ pdf' = render_pdf(json, pdf, folder)
                /\ threads' = [threads EXCEPT ![t].pc = "done", ![t].status = 200]
        /\ UNCHANGED <<dirs, json, usersFile, session, clock, last, appended, run,
                       cleaning>>

\* signup, lines 295-305: the input test, load_users and the membership test
su_load(t) ==
    LET username == strip(UsernameOf(t))
        req == [NoThread EXCEPT !.op = "signup", !.ref = UsernameOf(t),
                                !.text = ThreadPassword]
        users == load_users(usersFile)
    IN  /\ threads[t].pc = "idle"
        /\ IF LoadUsersFails(usersFile)
           THEN threads' = [threads EXCEPT
                               ![t] = [req EXCEPT !.pc = "done", !.status = 500]]
           ELSE IF UserExists(users, username)
           THEN threads' = [threads EXCEPT
                               ![t] = [req EXCEPT !.pc = "done", !.status = 409]]
           ELSE threads' = [threads EXCEPT
                               ![t] = [req EXCEPT !.pc = "su_loaded",
                                                  !.local = <<users>>]]
        /\ UNCHANGED <<dirs, json, pdf, usersFile, session, clock, last, appended,
                       run, cleaning>>

\* signup, lines 307-314: the new entry, save_users and the answer
su_save(t) ==
    /\ threads[t].pc = "su_loaded"
    /\ \E salt \in Salts :
          usersFile' = save_users((strip(threads[t].ref) :>
                                      NewUser(threads[t].text, salt))
                                  @@ LoadedUsers(t))
    /\ threads' = [threads EXCEPT ![t].pc = "done", ![t].status = 200]
    /\ UNCHANGED <<dirs, json, pdf, session, clock, last, appended, run, cleaning>>

(***************************************************************************)
(* The program: after start-up IDEAS exists and is empty (os.makedirs),    *)
(* users.enc is absent and no client holds a session.                      *)
(***************************************************************************)
\* the state start-up leaves, whatever is being cleaned
Boot ==
    /\ dirs = {<<>>}
    /\ json = EmptyMap
    /\ pdf = EmptyMap
    /\ usersFile = <<>>
    /\ session = [c \in Clients |-> NoSession]
    /\ clock = 1
    /\ last = NoRequest
    /\ appended = 0
    /\ run = NoRun
    /\ threads = [t \in Threads |-> NoThread]

Init ==
    /\ Boot
    /\ cleaning = <<>>

\* The repository with every idea route, under a client that signs in (c1) and
\* one that never does (c2).
Next ==
    \/ \E c \in Clients, data \in Payloads(Titles) : save_idea(c, data)
    \/ \E c \in Clients : list_ideas(c)
    \/ \E c \in Clients, folder \in UrlRefs(Titles) : get_idea(c, folder)
    \/ \E c \in Clients, folder \in UrlRefs(Titles) : delete_idea(c, folder)
    \/ \E c \in Clients, t \in Refs(Titles), text \in UpdateTexts :
          add_update(c, t, text)
    \/ \E c \in Clients, folder \in UrlRefs(Titles) : view_pdf(c, folder)
    \/ \E c \in Clients : home(c)
    \/ \E c \in Clients, op \in LoginGated : login_redirect(c, op)
    \/ \E c \in Clients : admin_page(c)
    \/ \E c \in Clients : admin_abort(c)
    \/ login("c1", ADMIN_USERNAME, ADMIN_PASSWORD)
    \/ Tick

Spec == Init /\ [][Next]_vars

\* The routes that name, read and remove folders, over titles whose names meet.
NextNaming ==
    \/ \E c \in Clients, data \in Payloads(NamingTitles) : save_idea(c, data)
    \/ \E c \in Clients : list_ideas(c)
    \/ \E c \in Clients, folder \in UrlRefs(NamingTitles) : get_idea(c, folder)
    \/ \E c \in Clients, folder \in UrlRefs(NamingTitles) : delete_idea(c, folder)
    \/ \E c \in Clients, folder \in UrlRefs(NamingTitles) : view_pdf(c, folder)
    \/ \E c \in Clients, op \in LoginGated : login_redirect(c, op)
    \/ login("c1", ADMIN_USERNAME, ADMIN_PASSWORD)

SpecNaming == Init /\ [][NextNaming]_vars

\* Signup, login and the two gates, over every username and password, with the
\* idea routes reduced to one title.
AuthPayload == Payload(<<"a">>, CHOOSE e \in Extras : e.updates = <<>>)

NextAuth ==
    \/ \E name \in Usernames, password \in Passwords : signup("c1", name, password)
    \/ \E name \in Usernames, password \in Passwords : login("c1", name, password)
    \/ \E c \in Clients : admin_page(c)
    \/ \E c \in Clients : admin_abort(c)
    \/ \E c \in Clients : home(c)
    \/ \E c \in Clients, op \in LoginGated : login_redirect(c, op)
    \/ \E c \in Clients : save_idea(c, AuthPayload)
    \/ \E c \in Clients : list_ideas(c)
    \/ \E c \in Clients : get_idea(c, <<"a">>)
    \/ \E c \in Clients : delete_idea(c, <<"a">>)
    \/ \E c \in Clients : add_update(c, <<"a">>, "u1")
    \/ \E c \in Clients : view_pdf(c, <<"a">>)

SpecAuth == Init /\ [][NextAuth]_vars

\* The idea routes over one title, with payloads the renderer accepts and one it
\* does not.
NextRender ==
    \/ \E c \in Clients, data \in RenderPayloads : save_idea(c, data)
    \/ \E c \in Clients : list_ideas(c)
    \/ \E c \in Clients, folder \in UrlRefs({<<"a">>}) : get_idea(c, folder)
    \/ \E c \in Clients, folder \in UrlRefs({<<"a">>}) : delete_idea(c, folder)
    \/ \E c \in Clients, t \in Refs({<<"a">>}), text \in UpdateTexts :
          add_update(c, t, text)
    \/ \E c \in Clients, folder \in UrlRefs({<<"a">>}) : view_pdf(c, folder)
    \/ \E c \in Clients, op \in LoginGated : login_redirect(c, op)
    \/ login("c1", ADMIN_USERNAME, ADMIN_PASSWORD)

SpecRender == Init /\ [][NextRender]_vars

\* Two requests handled step by step, among requests handled one at a time.
NextConcurrent ==
    \/ \E t \in Threads : au_load(t)
    \/ \E t \in Threads : au_write(t)
    \/ \E t \in Threads : au_render(t)
    \/ \E t \in Threads : si_scan(t)
    \/ \E t \in Threads : si_makedirs(t)
    \/ \E t \in Threads : si_write(t)
    \/ \E t \in Threads : si_render(t)
    \/ \E t \in Threads : su_load(t)
    \/ \E t \in Threads : su_save(t)
    \/ save_idea("c1", AuthPayload)
    \/ \E name \in {ADMIN_USERNAME, <<"a">>, <<"b">>},
           password \in {ADMIN_PASSWORD, ThreadPassword} :
          login("c1", name, password)

SpecConcurrent == Init /\ [][NextConcurrent]_vars

\* clean as a function of its argument alone: every string of up to MaxLen
\* characters of an alphabet with kept, stripped and non-ASCII characters
CleanAlphabet == {"a", "2", " ", "_", "-", "(", ")", ".", "/", "U+00E9"}

CleanInputs == UNION { [1..k -> CleanAlphabet] : k \in 0..MaxLen }

InitClean ==
    /\ Boot
    /\ cleaning \in { <<s>> : s \in CleanInputs }

\* clean applied to the string, then to its own result
CleanStep ==
    /\ Len(cleaning) \in 1..2
    /\ cleaning' = Append(cleaning, clean(cleaning[Len(cleaning)]))
    /\ UNCHANGED <<dirs, json, pdf, usersFile, session, clock, last, appended, run,
                   threads>>

NextClean == CleanStep

SpecClean == InitClean /\ [][NextClean]_vars

(***************************************************************************)
(* Claims.                                                                 *)
(***************************************************************************)
Doc(j, f) == JsonLoad(j[f])

IsPrefix(s, t) == Len(s) <= Len(t) /\ SubSeq(t, 1, Len(s)) = s

\* C1: in a run of save-idea requests that all carry one title, started when no
\* idea was stored under a name of that title, the k-th request returns
\* clean(title) for k = 1 and clean(title) + " (k)" for k >= 2, and the folders
\* returned are pairwise distinct.
C1_NamingPattern ==
    run.k >= 1 =>
        /\ last.folder =
              << IF run.k = 1 THEN clean(run.title)
                 ELSE Numbered(clean(run.title), run.k) >>
        /\ Cardinality(run.folders) = run.k

\* C2: a successful save-idea that returns folder f, immediately followed by
\* get(f), returns the record that was sent, apart from the fields the server
\* assigns (dateCreated when none was sent, generatedAt, updates).
C2_CreateThenGet ==
    (last.op = "get_idea" /\ last.follows = "save_idea") =>
        /\ last.status = 200
        /\ last.doc # <<>>
        /\ last.doc[1].title = last.payload[1].title
        /\ last.doc[1].summary = last.payload[1].summary
        /\ last.payload[1].dateCreated # <<>> =>
              last.doc[1].dateCreated = last.payload[1].dateCreated

\* C3: delete(r) for a reference r that is not the folder key of an existing
\* idea answers 404 and leaves every document, every artifact and the set of
\* folders as they were.
C3_DeleteMissing ==
    [][ (/\ last'.op = "delete_idea"
         /\ delete_idea(last'.client, last'.ref)
         /\ last'.ref \notin DOMAIN json) =>
            (last'.status = 404 /\ UNCHANGED <<dirs, json, pdf>>) ]_vars

\* C4: delete(r), whether it answers 200 or 404, immediately followed by get(r)
\* answers 404.
C4_DeleteThenGet ==
    (last.op = "get_idea" /\ last.follows \in {"deleted", "delete_failed"}) =>
        last.status = 404

C4_Witness ==
    /\ last.op = "get_idea"
    /\ last.follows = "deleted"
    /\ last.status = 404
    /\ DOMAIN json # {}

\* C6: every folder key of the repository is made of characters of
\* [A-Za-z0-9 _-] only, and clean leaves it as it is.
C6_FolderKeysClean ==
    \A k \in DOMAIN json :
        /\ \A i \in 1..Len(k) :
              k[i] \in AsciiLetters \cup AsciiDigits \cup {" ", "_", "-"}
        /\ clean(k) = k

\* C5: a successful add-update leaves the idea's updates equal to what they were
\* with the one entry {date: today, text} appended; and from one state to the
\* next the updates of an idea that stays stored only grow at the end.
C5_AppendOnly ==
    [][ /\ (/\ last'.op = "add_update"
             /\ last'.status = 200
             /\ add_update(last'.client, last'.ref, last'.text)) =>
                UpdatesOf(Doc(json', clean(last'.ref))) =
                    Append(UpdatesOf(Doc(json, clean(last'.ref))),
                           [date |-> Today, text |-> last'.text])
        /\ \A f \in DOMAIN json \cap DOMAIN json' :
              IsPrefix(UpdatesOf(Doc(json, f)), UpdatesOf(Doc(json', f))) ]_vars

C5_Witness ==
    /\ last.op = "add_update"
    /\ last.status = 200
    /\ clean(last.ref) \in DOMAIN json
    /\ Len(UpdatesOf(Doc(json, clean(last.ref)))) >= 2
    /\ Cardinality(DOMAIN json) >= 2

\* the users the credential store holds, and the password a user signed up with
Users == load_users(usersFile)
SignedUpWith(u) == FernetDecrypt(MASTER_FERNET, Users[u].password_encrypted)

\* C7 as stated: for a registered user u and any password p other than the one
\* u signed up with, login(u, p) answers 401 and leaves the session as it was.
C7_WrongPasswordAlways401 ==
    [][ (/\ last'.op = "login"
         /\ login(last'.client, last'.ref, last'.text)
         /\ last'.ref \in DOMAIN Users
         /\ last'.text # SignedUpWith(last'.ref)) =>
            (last'.status = 401 /\ session' = session) ]_vars

\* C7 as amended: for a registered user u and a password p other than the one u
\* signed up with, login(u, p) leaves the session as it was and answers 400
\* when p is empty and 401 otherwise, unless u and p are the privileged
\* username and password.
C7_WrongPassword ==
    [][ (/\ last'.op = "login"
         /\ login(last'.client, last'.ref, last'.text)
         /\ last'.ref \in DOMAIN Users
         /\ last'.text # SignedUpWith(last'.ref)
         /\ ~(last'.ref = ADMIN_USERNAME /\ last'.text = ADMIN_PASSWORD)) =>
            /\ last'.status = IF last'.text = "" THEN 400 ELSE 401
            /\ session' = session ]_vars

C7_Witness ==
    /\ last.op = "login"
    /\ last.status = 401
    /\ last.ref \in DOMAIN Users
    /\ last.text # SignedUpWith(last.ref)
    /\ session[last.client].role = "user"

\* C8 as stated: a signup whose username is in the credential store answers 409
\* and leaves the store as it was; a stored credential never changes.
C8_SignupExistingAlways409 ==
    [][ /\ (/\ last'.op = "signup"
             /\ signup(last'.client, last'.ref, last'.text)
             /\ last'.ref \in DOMAIN Users) =>
                (last'.status = 409 /\ usersFile' = usersFile)
        /\ \A u \in DOMAIN Users :
              /\ u \in DOMAIN load_users(usersFile')
              /\ load_users(usersFile')[u] = Users[u] ]_vars

\* C8 as amended: a signup whose username, once trimmed, is in the credential
\* store leaves the store as it was and answers 409 when its password is not
\* empty and 400 when it is; a stored credential never changes.
C8_SignupExisting ==
    [][ /\ (/\ last'.op = "signup"
             /\ signup(last'.client, last'.ref, last'.text)
             /\ strip(last'.ref) \in DOMAIN Users) =>
                /\ last'.status = IF last'.text = "" THEN 400 ELSE 409
                /\ usersFile' = usersFile
        /\ \A u \in DOMAIN Users :
              /\ u \in DOMAIN load_users(usersFile')
              /\ load_users(usersFile')[u] = Users[u] ]_vars

C8_Witness ==
    /\ last.op = "signup"
    /\ last.status = 409
    /\ strip(last.ref) \in DOMAIN Users
    /\ last.text # SignedUpWith(strip(last.ref))

\* the idea routes behind login_required
IdeaOps == {"save_idea", "list_ideas", "get_idea", "delete_idea", "add_update",
            "view_pdf"}

\* C9: a request to an idea route from a client whose session has no user is
\* answered with the redirect to /login and leaves the repository as it was; a
\* request to the admin page from a client whose role is not admin is answered
\* 403; neither answer reads or writes the credential store.
C9_Gates ==
    [][ /\ (last'.op \in IdeaOps /\ clock' = clock
                /\ session[last'.client].user = <<>>) =>
              /\ last'.status = 302
              /\ UNCHANGED <<dirs, json, pdf, usersFile>>
              /\ ~last'.storeRead /\ ~last'.storeWrite
        /\ (last'.op = "admin_page" /\ clock' = clock
                /\ session[last'.client].role # "admin") =>
              /\ last'.status = 403
              /\ UNCHANGED <<dirs, json, pdf, usersFile>>
              /\ ~last'.storeRead /\ ~last'.storeWrite ]_vars

C9_Witness ==
    /\ last.op = "delete_idea"
    /\ last.status = 302
    /\ session[last.client].user = <<>>
    /\ <<"a">> \in DOMAIN json
    /\ usersFile # <<>>

\* C10: a login that succeeds sets the role to admin exactly when it presented
\* the privileged username (trimmed, as login trims it) and password, and to
\* user when it went through the credential store; nothing but a successful
\* login of a client changes that client's session; an admin session is the
\* privileged username's.
C10_RoleFromLogin ==
    [][ \A c \in Clients :
          /\ (/\ last'.op = "login"
               /\ last'.client = c
               /\ last'.status = 200
               /\ login(c, last'.ref, last'.text)) =>
                  /\ session'[c].role = "admin" <=>
                        (strip(last'.ref) = ADMIN_USERNAME
                            /\ last'.text = ADMIN_PASSWORD)
                  /\ last'.storeRead => session'[c].role = "user"
                  /\ session'[c].role \in {"admin", "user"}
          /\ session'[c] # session[c] =>
                /\ last'.op = "login"
                /\ last'.client = c
                /\ last'.status = 200
                /\ login(c, last'.ref, last'.text)
          /\ session'[c].role = "admin" => session'[c].user = ADMIN_USERNAME ]_vars

C10_Witness ==
    /\ session["c1"].role = "admin"
    /\ last.op = "login"
    /\ last.status = 200
    /\ last.ref # ADMIN_USERNAME
    /\ ADMIN_USERNAME \in DOMAIN Users

\* the characters the naming policy names: [A-Za-z0-9 _-]
PolicyKeeps(c) == c \in AsciiLetters \cup AsciiDigits \cup {" ", "_", "-"}

\* delete every character outside [A-Za-z0-9 _-], then trim
CleanReference(s) == strip(SelectSeq(s, PolicyKeeps))

\* C11: clean(s) is s with every character outside [A-Za-z0-9 _-] deleted and
\* then trimmed, and clean(clean(s)) = clean(s).
C11_CleanIsReference ==
    /\ Len(cleaning) >= 2 => cleaning[2] = CleanReference(cleaning[1])
    /\ Len(cleaning) >= 3 => cleaning[3] = cleaning[2]

\* C12: a successful save-idea leaves in the record a generatedAt that the
\* server assigned (present, and not the value the caller sent), and a
\* successful add-update leaves a generatedAt other than the one the record
\* had before.
C12_GeneratedAtStamped ==
    [][ /\ (/\ last'.op = "save_idea"
             /\ last'.status = 200
             /\ save_idea(last'.client, last'.payload[1])) =>
                /\ Doc(json', last'.folder[1]).generatedAt # <<>>
                /\ Doc(json', last'.folder[1]).generatedAt #
                      last'.payload[1].generatedAt
        /\ (/\ last'.op = "add_update"
             /\ last'.status = 200
             /\ add_update(last'.client, last'.ref, last'.text)) =>
                /\ Doc(json', clean(last'.ref)).generatedAt # <<>>
                /\ Doc(json', clean(last'.ref)).generatedAt #
                      Doc(json, clean(last'.ref)).generatedAt ]_vars

\* C13: every folder that holds a document holds the artifact rendered from
\* that document, and no artifact is kept without its document; a delete leaves
\* neither in the folder it removed; the artifact read leaves every document as
\* it was and renders only an artifact that was absent.
C13_ArtifactOfDocument ==
    /\ [](/\ \A f \in DOMAIN json :
                f \in DOMAIN pdf /\ pdf[f] = Render(Doc(json, f))
          /\ DOMAIN pdf \subseteq DOMAIN json)
    /\ [][ /\ (/\ last'.op = "delete_idea"
                /\ last'.status = 200
                /\ delete_idea(last'.client, last'.ref)) =>
                   clean(last'.ref) \notin DOMAIN json' \cup DOMAIN pdf'
           /\ (last'.op = "view_pdf" /\ view_pdf(last'.client, last'.ref)) =>
                   /\ json' = json
                   /\ \A f \in DOMAIN pdf : f \in DOMAIN pdf' /\ pdf'[f] = pdf[f]
         ]_vars

\* the answers of two handlers of one route that both ended in success
BothAnswered(t, u, op) ==
    /\ t # u
    /\ threads[t].op = op /\ threads[t].pc = "done" /\ threads[t].status = 200
    /\ threads[u].op = op /\ threads[u].pc = "done" /\ threads[u].status = 200

\* the entry a thread's add-update appends
EntryOf(t) == [date |-> Today, text |-> threads[t].text]

\* C14: when two add-update requests on one idea have both been answered with
\* success, the stored updates are what one of the two handlers loaded plus
\* that handler's own entry (the whole document is rewritten, the last writer
\* wins); the witness is the state where both loaded the same document, so
\* the stored updates are one entry longer and hold one of the two texts.
C14_LastWriterWins ==
    \A t \in Threads, u \in Threads :
        (BothAnswered(t, u, "add_update")
            /\ threads[t].folder = threads[u].folder) =>
            UpdatesOf(Doc(json, threads[t].folder[1])) \in
                { Append(UpdatesOf(threads[t].local[1]), EntryOf(t)),
                  Append(UpdatesOf(threads[u].local[1]), EntryOf(u)) }

C14_Witness ==
    /\ BothAnswered("t1", "t2", "add_update")
    /\ threads["t1"].folder = threads["t2"].folder
    /\ threads["t1"].text # threads["t2"].text
    /\ threads["t1"].local = threads["t2"].local
    /\ Len(UpdatesOf(Doc(json, threads["t1"].folder[1]))) =
          Len(UpdatesOf(threads["t1"].local[1])) + 1
    /\ \E i \in 1..Len(UpdatesOf(Doc(json, threads["t1"].folder[1]))) :
          UpdatesOf(Doc(json, threads["t1"].folder[1]))[i].text = threads["t2"].text
    /\ \A i \in 1..Len(UpdatesOf(Doc(json, threads["t1"].folder[1]))) :
          UpdatesOf(Doc(json, threads["t1"].folder[1]))[i].text # threads["t1"].text

\* C15: a save-idea request is answered with the name its scan found free, and
\* when two save-idea requests have been answered with the same folder, neither
\* scan saw that folder and the folder holds the record of one of the two; the
\* witness is the state where two requests with different payloads were both
\* answered with one folder.
C15_SameFolderOnlyUnseen ==
    /\ \A t \in Threads :
          (threads[t].op = "save_idea" /\ threads[t].folder # <<>>) =>
              threads[t].folder[1] \notin threads[t].local[1]
    /\ \A t \in Threads, u \in Threads :
          (BothAnswered(t, u, "save_idea")
              /\ threads[t].folder = threads[u].folder) =>
              Doc(json, threads[t].folder[1]) \in
                  { StoredRecord(threads[t].payload[1]),
                    StoredRecord(threads[u].payload[1]) }

C15_Witness ==
    /\ BothAnswered("t1", "t2", "save_idea")
    /\ threads["t1"].folder = threads["t2"].folder
    /\ threads["t1"].payload # threads["t2"].payload
    /\ Doc(json, threads["t1"].folder[1]) = StoredRecord(threads["t1"].payload[1])
    /\ \A f \in DOMAIN json :
          Doc(json, f) # StoredRecord(threads["t2"].payload[1])

\* C16: when two signup requests with different usernames have both been
\* answered with success, the store holds what one of the two handlers loaded
\* plus that handler's own user; the witness is the state where both loaded the
\* same store, one acknowledged user is absent from it, and that user's login
\* with the password signed up with has just been refused.
C16_StoreIsOneSnapshot ==
    \A t \in Threads, u \in Threads :
        (BothAnswered(t, u, "signup")
            /\ strip(threads[t].ref) # strip(threads[u].ref)) =>
            DOMAIN Users \in
                { DOMAIN threads[t].local[1] \cup {strip(threads[t].ref)},
                  DOMAIN threads[u].local[1] \cup {strip(threads[u].ref)} }

C16_Witness ==
    /\ BothAnswered("t1", "t2", "signup")
    /\ strip(threads["t1"].ref) # strip(threads["t2"].ref)
    /\ strip(threads["t2"].ref) \in DOMAIN Users
    /\ strip(threads["t1"].ref) \notin DOMAIN Users
    /\ last.op = "login"
    /\ last.ref = threads["t1"].ref
    /\ last.text = threads["t1"].text
    /\ last.status = 401

\* C17: after a successful save-idea the stored record's updates are empty,
\* whatever the payload held; a save-idea with an empty or absent title answers
\* 400 and creates no folder, document or artifact.
C17_CreatedWithNoUpdates ==
    [][ (last'.op = "save_idea" /\ save_idea(last'.client, last'.payload[1])) =>
            /\ last'.status = 200 =>
                  Doc(json', last'.folder[1]).updates = << <<>> >>
            /\ last'.payload[1].title = <<>> =>
                  (last'.status = 400 /\ UNCHANGED <<dirs, json, pdf>>) ]_vars

\* C18: add-update with a title succeeds exactly when the folder clean(title)
\* holds a document; it then changes the document and the artifact of that
\* folder only; otherwise it answers 404 and changes nothing.
C18_UpdateFrame ==
    [][ (last'.op = "add_update"
            /\ add_update(last'.client, last'.ref, last'.text)) =>
            /\ last'.status = 200 <=> clean(last'.ref) \in DOMAIN json
            /\ clean(last'.ref) \notin DOMAIN json =>
                  (last'.status = 404 /\ UNCHANGED <<dirs, json, pdf>>)
            /\ dirs' = dirs
            /\ DOMAIN json' = DOMAIN json
            /\ DOMAIN pdf' = DOMAIN pdf
            /\ \A g \in DOMAIN json \ {clean(last'.ref)} : json'[g] = json[g]
            /\ \A g \in DOMAIN pdf \ {clean(last'.ref)} : pdf'[g] = pdf[g] ]_vars

\* C19: a successful delete(r) removes the idea whose folder key is r, with its
\* artifact, and no other document or artifact; and delete(f) succeeds for
\* every folder key f of a stored idea.
C19_DeleteExactlyOne ==
    [][ (last'.op = "delete_idea" /\ delete_idea(last'.client, last'.ref)) =>
            /\ last'.status = 200 =>
                  /\ last'.ref \in DOMAIN json
                  /\ DOMAIN json' = DOMAIN json \ {last'.ref}
                  /\ DOMAIN pdf' = DOMAIN pdf \ {last'.ref}
                  /\ \A g \in DOMAIN json' : json'[g] = json[g]
                  /\ \A g \in DOMAIN pdf' : pdf'[g] = pdf[g]
            /\ last'.ref \in DOMAIN json =>
                  (last'.status = 200 /\ last'.ref \notin DOMAIN json') ]_vars

====
